---- MODULE Spec2Model ----
(***************************************************************************)
(* Model of src/MentalHealthAIApp.tsx: the chat component's state, its     *)
(* event handlers and the asynchronous handleSend round trip.              *)
(*                                                                         *)
(* A text is a string.  trim, toLowerCase and includes are computed        *)
(* character by character on Chars(text), the text's sequence of           *)
(* one-character strings.  The character U+2014 (em dash) is written       *)
(* "<U+2014>".                                                             *)
(***************************************************************************)
EXTENDS Integers, Sequences, FiniteSets, TLC

\* ------------------------------------------------------------------ bounds
MaxSubmits == 2     \* accepted submits explored from the first render
MaxPad == 1         \* characters put before and after a phrase handed to the classifier
MaxExchanges == 11  \* answered exchanges behind the submit whose request body is examined

\* ------------------------------------------------------- program constants
WINDOW == 20

SYSTEM_PROMPT == "You are a compassionate, nonjudgmental mental health assistant. Provide psychoeducation, empathic reflections, coping strategies, and encourage users to seek professional help when appropriate. If the user describes imminent danger or self-harm, immediately display crisis resources and encourage contacting local emergency services."

GREETING == "Hi <U+2014> I'm here to listen and to help you understand what's going on. You can share whatever you feel comfortable with. If this is an emergency or you're thinking of harming yourself, please tell me and I'll help you find immediate support."

FALLBACK_REPLY == "Sorry <U+2014> I couldn't generate a response."

APOLOGY_REPLY == "I'm having trouble right now. Please try again later."

CRISIS_KEYWORDS ==
  << "suicide",
     "kill myself",
     "end my life",
     "want to die",
     "hurt myself",
     "harm myself",
     "violent",
     "no reason to live" >>

CONSENT_ERROR == "Please confirm that you consent to have this conversation processed by the assistant."

FETCH_ERROR == "Failed to reach the assistant. Try again later."

\* error: string | null
NULL == "<null>"

Tones == {"compassionate", "practical", "curious"}

\* ---------------------------------------------------------- string library
\* The characters of each text a handler looks into: the crisis keywords, the
\* texts the textarea delivers, and their trimmed forms.
Chars(text) ==
  CASE text = "" -> <<>>
    [] text = " \n" -> <<" ", "\n">>
    [] text = " sad " -> <<" ", "s", "a", "d", " ">>
    [] text = "sad" -> <<"s", "a", "d">>
    [] text = "I want to END my life\n" ->
         <<"I", " ", "w", "a", "n", "t", " ", "t", "o", " ", "E", "N", "D", " ",
           "m", "y", " ", "l", "i", "f", "e", "\n">>
    [] text = "I want to END my life" ->
         <<"I", " ", "w", "a", "n", "t", " ", "t", "o", " ", "E", "N", "D", " ",
           "m", "y", " ", "l", "i", "f", "e">>
    [] text = "suicide" -> <<"s", "u", "i", "c", "i", "d", "e">>
    [] text = "kill myself" -> <<"k", "i", "l", "l", " ", "m", "y", "s", "e", "l", "f">>
    [] text = "end my life" -> <<"e", "n", "d", " ", "m", "y", " ", "l", "i", "f", "e">>
    [] text = "want to die" -> <<"w", "a", "n", "t", " ", "t", "o", " ", "d", "i", "e">>
    [] text = "hurt myself" -> <<"h", "u", "r", "t", " ", "m", "y", "s", "e", "l", "f">>
    [] text = "harm myself" -> <<"h", "a", "r", "m", " ", "m", "y", "s", "e", "l", "f">>
    [] text = "violent" -> <<"v", "i", "o", "l", "e", "n", "t">>
    [] text = "no reason to live" ->
         <<"n", "o", " ", "r", "e", "a", "s", "o", "n", " ", "t", "o", " ",
           "l", "i", "v", "e">>

Texts ==
  { "", " \n", " sad ", "sad", "I want to END my life\n", "I want to END my life",
    "suicide", "kill myself", "end my life", "want to die", "hurt myself",
    "harm myself", "violent", "no reason to live" }

\* the text with the given characters
Str(chars) == CHOOSE text \in Texts : Chars(text) = chars

WhiteSpace == {" ", "\t", "\n", "\r", "\f"}

UpperCase ==
  <<"A", "B", "C", "D", "E", "F", "G", "H", "I", "J", "K", "L", "M",
    "N", "O", "P", "Q", "R", "S", "T", "U", "V", "W", "X", "Y", "Z">>

LowerCase ==
  <<"a", "b", "c", "d", "e", "f", "g", "h", "i", "j", "k", "l", "m",
    "n", "o", "p", "q", "r", "s", "t", "u", "v", "w", "x", "y", "z">>

LowerChar(c) ==
  IF \E i \in 1..Len(UpperCase) : UpperCase[i] = c
    THEN LowerCase[CHOOSE i \in 1..Len(UpperCase) : UpperCase[i] = c]
    ELSE c

\* String.prototype.toLowerCase, on characters
toLowerCase(chars) == [i \in 1..Len(chars) |-> LowerChar(chars[i])]

RECURSIVE trimStart(_)
trimStart(chars) ==
  IF chars # <<>> /\ Head(chars) \in WhiteSpace THEN trimStart(Tail(chars)) ELSE chars

RECURSIVE trimEnd(_)
trimEnd(chars) ==
  IF chars # <<>> /\ chars[Len(chars)] \in WhiteSpace
    THEN trimEnd(SubSeq(chars, 1, Len(chars) - 1))
    ELSE chars

\* String.prototype.trim
trim(text) == Str(trimEnd(trimStart(Chars(text))))

\* String.prototype.includes, on characters
includes(chars, kw) ==
  \E i \in 0..(Len(chars) - Len(kw)) : SubSeq(chars, i + 1, i + Len(kw)) = kw

\* Array.prototype.slice(-n): the last n elements, all of them when fewer
sliceLast(s, n) ==
  IF Len(s) <= n THEN s ELSE SubSeq(s, Len(s) - n + 1, Len(s))

\* ------------------------------------------------------- crisis classifier
\* (mutant) the text is not lower-cased before the search
containsCrisisOf_CaseSensitive(value) ==
  IF ~value.present \/ value.chars = <<>> THEN FALSE
  ELSE \E k \in 1..Len(CRISIS_KEYWORDS) :
         includes(value.chars, Chars(CRISIS_KEYWORDS[k]))

\* containsCrisis on an argument given by its characters; present is FALSE for
\* an absent (undefined or null) argument, which !text catches like ""
containsCrisisOf(value) ==
  IF ~value.present \/ value.chars = <<>> THEN FALSE
  ELSE LET lower == toLowerCase(value.chars)
       IN  \E k \in 1..Len(CRISIS_KEYWORDS) :
             includes(lower, Chars(CRISIS_KEYWORDS[k]))

containsCrisis(text) ==
  containsCrisisOf([present |-> TRUE, chars |-> Chars(text)])

\* ------------------------------------------------------------------ inputs
\* values the textarea's onChange can deliver
InputTexts == { " \n", " sad ", "I want to END my life\n" }

\* values the name field's onChange can deliver
UserNames == {"", "Alex"}

\* keys a keydown event can carry
Keys == {"Enter", "a"}

ReplyTexts == { "", "ok" }

\* What one fetch("/api/ai") round trip can come back with:
\*   fetchOk  FALSE: fetch itself rejects (network error)
\*   ok       res.ok (FALSE: a non-2xx status)
\*   json     "invalid": res.json() rejects; "null": the body is the JSON value
\*            null; "object": any other JSON value
\*   hasReply, reply, flagged: the properties read from the parsed value
\*            (flagged is "absent", "false" or "true")
Responses ==
  { [fetchOk |-> FALSE, ok |-> FALSE, json |-> "invalid", hasReply |-> FALSE,
     reply |-> "", flagged |-> "absent"],
    [fetchOk |-> TRUE, ok |-> FALSE, json |-> "object", hasReply |-> FALSE,
     reply |-> "", flagged |-> "absent"],
    [fetchOk |-> TRUE, ok |-> TRUE, json |-> "invalid", hasReply |-> FALSE,
     reply |-> "", flagged |-> "absent"],
    [fetchOk |-> TRUE, ok |-> TRUE, json |-> "null", hasReply |-> FALSE,
     reply |-> "", flagged |-> "absent"] }
  \cup
  { [fetchOk |-> TRUE, ok |-> TRUE, json |-> "object", hasReply |-> FALSE,
     reply |-> "", flagged |-> f] : f \in {"absent", "false", "true"} }
  \cup
  { [fetchOk |-> TRUE, ok |-> TRUE, json |-> "object", hasReply |-> TRUE,
     reply |-> t, flagged |-> f] :
       t \in ReplyTexts, f \in {"absent", "false", "true"} }

\* ------------------------------------------------------------------- state
VARIABLES
  messages,          \* useState<Message[]>: the message log
  input,             \* useState<string>: the textarea's text
  loading,           \* useState<boolean>
  showCrisisModal,   \* useState<boolean>
  userName,          \* useState<string>
  consentChecked,    \* useState<boolean>
  tone,              \* useState<string>
  error,             \* useState<string | null>
  messageId,         \* useRef<number>: the next id addMessage assigns
  requests,          \* the handleSend calls suspended at await fetch(...)
  fetchCalls,        \* number of fetch("/api/ai") calls made so far
  accepted,          \* number of handleSend calls that passed both checks
  exchanges,         \* per settled call: its user turn and its assistant turn
  outcome,           \* how the latest handler run ended
  budget,            \* accepted submits still to be explored
  probe              \* an argument of containsCrisis and, once classified, the verdict

vars ==
  <<messages, input, loading, showCrisisModal, userName, consentChecked, tone,
    error, messageId, requests, fetchCalls, accepted, exchanges,
    outcome, budget, probe>>

ui == <<userName, consentChecked, tone>>

\* new Date().toISOString(): the value is not read by any handler modelled
\* here, so every timestamp is the one abstract instant
NOW == "<now>"

SeedMessages ==
  << [id |-> 0, role |-> "system", text |-> SYSTEM_PROMPT, time |-> NOW],
     [id |-> 1, role |-> "assistant", text |-> GREETING, time |-> NOW] >>

\* no text has been handed to the classifier on its own
NoProbe == [present |-> FALSE, chars |-> <<>>, verdict |-> "unset"]

\* the component's state after its first render
FirstRender ==
  /\ messages = SeedMessages
  /\ input = ""
  /\ loading = FALSE
  /\ showCrisisModal = FALSE
  /\ userName = ""
  /\ consentChecked = FALSE
  /\ tone = "compassionate"
  /\ error = NULL
  /\ messageId = 2
  /\ requests = {}
  /\ fetchCalls = 0
  /\ accepted = 0
  /\ exchanges = {}
  /\ outcome = "none"
  /\ budget = MaxSubmits

Init == FirstRender /\ probe = NoProbe

\* (mutant) the ref is not advanced: every new entry gets the first free id
addMessage_NoBump(log, role, text) ==
  Append(log, [id |-> 2, role |-> role, text |-> text, time |-> NOW])

\* (mutant) the new entry is put in front of the log
addMessage_Prepend(log, role, text) ==
  << [id |-> messageId, role |-> role, text |-> text, time |-> NOW] >> \o log

\* -------------------------------------------------------------- operations
\* addMessage(role, text): the log after the append; the ref is bumped by the
\* caller (messageId' = messageId + 1)
addMessage(log, role, text) ==
  Append(log, [id |-> messageId, role |-> role, text |-> text, time |-> NOW])

\* (mutant) the window is cut before the new turn is added
buildPayload_SliceFirst(log, userText, t, name) ==
  [ messages |-> sliceLast(log, WINDOW) \o << [role |-> "user", text |-> userText] >>,
    settings |-> [tone |-> t],
    metadata |-> [userName |-> name] ]

\* the request body built in handleSend from the render's messages
buildPayload(log, userText, t, name) ==
  [ messages |-> sliceLast(log \o << [role |-> "user", text |-> userText] >>, WINDOW),
    settings |-> [tone |-> t],
    metadata |-> [userName |-> name] ]

\* (mutant) the local crisis check is left to the response
sendAccepted_NoLocalCheck(userText) ==
  /\ error' = NULL
  /\ messages' = addMessage(messages, "user", userText)
  /\ messageId' = messageId + 1
  /\ input' = ""
  /\ showCrisisModal' = showCrisisModal
  /\ loading' = TRUE
  /\ requests' = requests \cup
       { [ n |-> fetchCalls + 1,
           user |-> messageId,
           body |-> buildPayload(messages, userText, tone, userName),
           showCrisisModal |-> showCrisisModal ] }
  /\ fetchCalls' = fetchCalls + 1
  /\ accepted' = accepted + 1
  /\ budget' = budget - 1
  /\ outcome' = "dispatched"
  /\ UNCHANGED <<ui, exchanges, probe>>

\* (mutant) an accepted submit leaves the error of an earlier attempt
sendAccepted_KeepsError(userText) ==
  /\ error' = error
  /\ messages' = addMessage(messages, "user", userText)
  /\ messageId' = messageId + 1
  /\ input' = ""
  /\ showCrisisModal' = (containsCrisis(userText) \/ showCrisisModal)
  /\ loading' = TRUE
  /\ requests' = requests \cup
       { [ n |-> fetchCalls + 1,
           user |-> messageId,
           body |-> buildPayload(messages, userText, tone, userName),
           showCrisisModal |-> showCrisisModal ] }
  /\ fetchCalls' = fetchCalls + 1
  /\ accepted' = accepted + 1
  /\ budget' = budget - 1
  /\ outcome' = "dispatched"
  /\ UNCHANGED <<ui, exchanges, probe>>

\* handleSend from "const userText = input.trim()" to the await: the user turn
\* is appended, the input cleared, the text classified, loading set and the
\* request sent.  messages, tone, userName and showCrisisModal are the values
\* of the render the handler was created in; the suspended call keeps that
\* render's showCrisisModal.
sendAccepted(userText) ==
  /\ error' = NULL
  /\ messages' = addMessage(messages, "user", userText)
  /\ messageId' = messageId + 1
  /\ input' = ""
  /\ showCrisisModal' = (containsCrisis(userText) \/ showCrisisModal)
  /\ loading' = TRUE
  /\ requests' = requests \cup
       { [ n |-> fetchCalls + 1,
           user |-> messageId,
           body |-> buildPayload(messages, userText, tone, userName),
           showCrisisModal |-> showCrisisModal ] }
  /\ fetchCalls' = fetchCalls + 1
  /\ accepted' = accepted + 1
  /\ budget' = budget - 1
  /\ outcome' = "dispatched"
  /\ UNCHANGED <<ui, exchanges, probe>>

\* (mutant) the consent check is missing
handleSend_NoConsentCheck ==
  IF trim(input) = ""
    THEN /\ outcome' = "ignored"
         /\ UNCHANGED <<messages, input, loading, showCrisisModal, ui, error,
                        messageId, requests, fetchCalls, accepted,
                        exchanges, budget, probe>>
  ELSE sendAccepted(trim(input))

\* (mutant) setError(null) runs before the empty-input check
handleSend_ClearsErrorFirst ==
  IF trim(input) = ""
    THEN /\ outcome' = "ignored"
         /\ error' = NULL
         /\ UNCHANGED <<messages, input, loading, showCrisisModal, ui,
                        messageId, requests, fetchCalls, accepted,
                        exchanges, budget, probe>>
  ELSE IF ~consentChecked
    THEN /\ error' = CONSENT_ERROR
         /\ outcome' = "rejected"
         /\ UNCHANGED <<messages, input, loading, showCrisisModal, ui,
                        messageId, requests, fetchCalls, accepted,
                        exchanges, budget, probe>>
  ELSE sendAccepted(trim(input))

\* handleSend up to its first await
handleSend ==
  IF trim(input) = ""
    THEN /\ outcome' = "ignored"
         /\ UNCHANGED <<messages, input, loading, showCrisisModal, ui, error,
                        messageId, requests, fetchCalls, accepted,
                        exchanges, budget, probe>>
  ELSE IF ~consentChecked
    THEN /\ error' = CONSENT_ERROR
         /\ outcome' = "rejected"
         /\ UNCHANGED <<messages, input, loading, showCrisisModal, ui,
                        messageId, requests, fetchCalls, accepted,
                        exchanges, budget, probe>>
  ELSE sendAccepted(trim(input))

\* (mutant) the res.ok check is missing
throws_NoStatusCheck(resp) ==
  \/ ~resp.fetchOk
  \/ resp.json = "invalid"
  \/ resp.json = "null"

\* does the try block of handleSend throw on this response?  fetch rejects,
\* "throw new Error" on !res.ok, res.json() rejects, or data is null and
\* reading data.flagged throws
throws(resp) ==
  \/ ~resp.fetchOk
  \/ ~resp.ok
  \/ resp.json = "invalid"
  \/ resp.json = "null"

\* (mutant) the reply is used whenever the property is there (?? for ||)
resumeOk_ReplyIfPresent(r, resp) ==
  /\ showCrisisModal' =
       IF resp.flagged = "true" /\ ~r.showCrisisModal THEN TRUE ELSE showCrisisModal
  /\ messages' = addMessage(messages, "assistant",
                   IF resp.hasReply THEN resp.reply ELSE FALLBACK_REPLY)
  /\ messageId' = messageId + 1
  /\ outcome' = "replied"
  /\ UNCHANGED error

\* (mutant) the modal follows the response's flag
resumeOk_FlagFromResponse(r, resp) ==
  /\ showCrisisModal' = (resp.flagged = "true")
  /\ messages' = addMessage(messages, "assistant",
                   IF resp.hasReply /\ resp.reply # "" THEN resp.reply
                   ELSE FALLBACK_REPLY)
  /\ messageId' = messageId + 1
  /\ outcome' = "replied"
  /\ UNCHANGED error

\* the try block after the await, for a response that does not throw
resumeOk(r, resp) ==
  /\ showCrisisModal' =
       IF resp.flagged = "true" /\ ~r.showCrisisModal THEN TRUE ELSE showCrisisModal
  /\ messages' = addMessage(messages, "assistant",
                   IF resp.hasReply /\ resp.reply # "" THEN resp.reply
                   ELSE FALLBACK_REPLY)
  /\ messageId' = messageId + 1
  /\ outcome' = "replied"
  /\ UNCHANGED error

\* (mutant) the catch block only reports the error
resumeCatch_NoTurn(r) ==
  /\ error' = FETCH_ERROR
  /\ outcome' = "failed"
  /\ UNCHANGED <<messages, messageId, showCrisisModal>>

\* the catch block
resumeCatch(r) ==
  /\ error' = FETCH_ERROR
  /\ messages' = addMessage(messages, "assistant", APOLOGY_REPLY)
  /\ messageId' = messageId + 1
  /\ outcome' = "failed"
  /\ UNCHANGED showCrisisModal

\* (mutant) setLoading(false) is missing
resumeFinally_KeepsLoading(r) ==
  /\ loading' = loading
  /\ requests' = requests \ {r}
  /\ exchanges' = exchanges \cup
       { [n |-> r.n, user |-> r.user, assistant |-> messageId] }

\* the finally block; the call is no longer suspended
resumeFinally(r) ==
  /\ loading' = FALSE
  /\ requests' = requests \ {r}
  /\ exchanges' = exchanges \cup
       { [n |-> r.n, user |-> r.user, assistant |-> messageId] }

\* ----------------------------------------------------------------- actions
\* textarea onChange
SetInput(t) ==
  /\ t # input
  /\ input' = t
  /\ outcome' = "none"
  /\ UNCHANGED <<messages, loading, showCrisisModal, ui, error, messageId,
                 requests, fetchCalls, accepted, exchanges, budget, probe>>

\* (mutant) the Clear button also puts the log back to its first two entries
ClearInput_ResetsLog ==
  /\ input' = ""
  /\ messages' = SeedMessages
  /\ messageId' = 2
  /\ outcome' = "cleared"
  /\ UNCHANGED <<loading, showCrisisModal, ui, error,
                 requests, fetchCalls, accepted, exchanges, budget, probe>>

\* the Clear button
ClearInput ==
  /\ input' = ""
  /\ outcome' = "cleared"
  /\ UNCHANGED <<messages, loading, showCrisisModal, ui, error, messageId,
                 requests, fetchCalls, accepted, exchanges, budget, probe>>

SetUserName(name) ==
  /\ name # userName
  /\ userName' = name
  /\ outcome' = "none"
  /\ UNCHANGED <<messages, input, loading, showCrisisModal, consentChecked,
                 tone, error, messageId, requests, fetchCalls, accepted,
                 exchanges, budget, probe>>

SetTone(t) ==
  /\ t # tone
  /\ tone' = t
  /\ outcome' = "none"
  /\ UNCHANGED <<messages, input, loading, showCrisisModal, consentChecked,
                 userName, error, messageId, requests, fetchCalls,
                 accepted, exchanges, budget, probe>>

SetConsentChecked(b) ==
  /\ b # consentChecked
  /\ consentChecked' = b
  /\ outcome' = "none"
  /\ UNCHANGED <<messages, input, loading, showCrisisModal, userName, tone,
                 error, messageId, requests, fetchCalls, accepted,
                 exchanges, budget, probe>>

\* the crisis modal's Close button (rendered only while the modal shows)
CloseCrisisModal ==
  /\ showCrisisModal
  /\ showCrisisModal' = FALSE
  /\ outcome' = "none"
  /\ UNCHANGED <<messages, input, loading, ui, error, messageId,
                 requests, fetchCalls, accepted, exchanges, budget, probe>>

\* the Send button (disabled while loading); budget > 0, here and in KeyDown,
\* ends the exploration after the bounded number of accepted submits
ClickSend ==
  /\ ~loading
  /\ budget > 0
  /\ handleSend

\* textarea onKeyDown
handleKeyDown(key, metaKey, ctrlKey) ==
  IF key = "Enter" /\ (metaKey \/ ctrlKey)
    THEN handleSend
    ELSE /\ outcome' = "none"
         /\ UNCHANGED <<messages, input, loading, showCrisisModal, ui, error,
                        messageId, requests, fetchCalls, accepted,
                        exchanges, budget, probe>>

\* a keydown event in the textarea
KeyDown(key, metaKey, ctrlKey) ==
  /\ budget > 0
  /\ handleKeyDown(key, metaKey, ctrlKey)

\* the Download transcript button: the log is written to a file, the
\* component's state is not touched
downloadTranscript ==
  /\ outcome' = "exported"
  /\ UNCHANGED <<messages, input, loading, showCrisisModal, ui, error,
                 messageId, requests, fetchCalls, accepted, exchanges,
                 budget, probe>>

\* (mutant) a failed round trip is sent again
Resolve_Retry(r, resp) ==
  /\ r \in requests
  /\ IF throws(resp)
       THEN /\ fetchCalls' = fetchCalls + 1
            /\ outcome' = "failed"
            /\ UNCHANGED <<messages, messageId, showCrisisModal, error, loading,
                           requests, exchanges>>
       ELSE /\ resumeOk(r, resp)
            /\ resumeFinally(r)
            /\ UNCHANGED fetchCalls
  /\ UNCHANGED <<input, ui, accepted, budget, probe>>

\* the awaited fetch of the suspended call r settles with resp and handleSend
\* runs to its end
Resolve(r, resp) ==
  /\ r \in requests
  /\ IF throws(resp) THEN resumeCatch(r) ELSE resumeOk(r, resp)
  /\ resumeFinally(r)
  /\ UNCHANGED <<input, ui, fetchCalls, accepted, budget, probe>>

\* ---------------------------------------------------------- specifications
\* The conversation: every handler but the two settings fields and the
\* export.  SetUserName and SetTone write only userName and tone, which
\* handleSend reads only to fill the request body, and downloadTranscript
\* writes no state; Spec leaves userName and tone at their first values.
Next ==
  \/ \E t \in InputTexts : SetInput(t)
  \/ ClearInput
  \/ \E b \in BOOLEAN : SetConsentChecked(b)
  \/ CloseCrisisModal
  \/ ClickSend
  \/ \E key \in Keys, metaKey \in BOOLEAN, ctrlKey \in BOOLEAN :
       KeyDown(key, metaKey, ctrlKey)
  \/ \E r \in requests, resp \in Responses : Resolve(r, resp)

Spec == Init /\ [][Next]_vars

\* fetch's promise always settles: every suspended call is resumed
ResolveN(n) ==
  \E r \in requests, resp \in Responses : r.n = n /\ Resolve(r, resp)

LiveSpec == Spec /\ \A n \in 1..MaxSubmits : WF_vars(ResolveN(n))

\* The request body: one more submit, with every handler, from the state k
\* answered exchanges leave behind.
LogAfter(k) ==
  SeedMessages \o
  [ i \in 1..(2 * k) |->
      IF i % 2 = 1
        THEN [id |-> i + 1, role |-> "user", text |-> "sad", time |-> NOW]
        ELSE [id |-> i + 1, role |-> "assistant", text |-> "ok", time |-> NOW] ]

InitPayload ==
  \E k \in 0..MaxExchanges :
    /\ messages = LogAfter(k)
    /\ messageId = 2 + 2 * k
    /\ fetchCalls = k
    /\ accepted = k
    /\ exchanges = { [n |-> i, user |-> 2 * i, assistant |-> 2 * i + 1] : i \in 1..k }
    /\ consentChecked = (k > 0)
    /\ input = ""
    /\ loading = FALSE
    /\ showCrisisModal \in (IF k > 0 THEN BOOLEAN ELSE {FALSE})
    /\ userName = ""
    /\ tone = "compassionate"
    /\ error = NULL
    /\ requests = {}
    /\ outcome = "none"
    /\ budget = 1
    /\ probe = NoProbe

NextPayload ==
  \/ \E t \in InputTexts : SetInput(t)
  \/ ClearInput
  \/ \E name \in UserNames : SetUserName(name)
  \/ \E t \in Tones : SetTone(t)
  \/ \E b \in BOOLEAN : SetConsentChecked(b)
  \/ CloseCrisisModal
  \/ downloadTranscript
  \/ ClickSend
  \/ \E key \in Keys, metaKey \in BOOLEAN, ctrlKey \in BOOLEAN :
       KeyDown(key, metaKey, ctrlKey)
  \/ \E r \in requests, resp \in Responses : Resolve(r, resp)

SpecPayload == InitPayload /\ [][NextPayload]_vars

\* The classifier on its own: containsCrisis is applied once to an argument
\* that is absent, or is a phrase with up to MaxPad characters around it.
PadChars == {"a", " ", "E"}

Pads == UNION { [1..m -> PadChars] : m \in 0..MaxPad }

UpperChar(c) ==
  IF \E i \in 1..Len(LowerCase) : LowerCase[i] = c
    THEN UpperCase[CHOOSE i \in 1..Len(LowerCase) : LowerCase[i] = c]
    ELSE c

\* each keyword as it is, in capitals, with its first letter capital, and
\* with its last letter missing; and no phrase at all
Phrases ==
  {<<>>} \cup
  UNION { LET kw == Chars(CRISIS_KEYWORDS[k])
          IN  { kw,
                [i \in 1..Len(kw) |-> UpperChar(kw[i])],
                [i \in 1..Len(kw) |-> IF i = 1 THEN UpperChar(kw[i]) ELSE kw[i]],
                SubSeq(kw, 1, Len(kw) - 1) } :
          k \in 1..Len(CRISIS_KEYWORDS) }

ProbeValues ==
  { NoProbe } \cup
  { [present |-> TRUE, chars |-> p \o c \o q, verdict |-> "unset"] :
      p \in Pads, c \in Phrases, q \in Pads }

InitClassify == FirstRender /\ probe \in ProbeValues

\* a call of containsCrisis
Classify ==
  /\ probe.verdict = "unset"
  /\ probe' = [probe EXCEPT !.verdict =
                 IF containsCrisisOf(probe) THEN "true" ELSE "false"]
  /\ UNCHANGED <<messages, input, loading, showCrisisModal, ui, error,
                 messageId, requests, fetchCalls, accepted, exchanges,
                 outcome, budget>>

NextClassify == Classify

SpecClassify == InitClassify /\ [][NextClassify]_vars

\* ------------------------------------------------------------- properties
\* positions of the log holding a turn of the given role
TurnsOf(role) == { i \in 1..Len(messages) : messages[i].role = role }

LastMessage == messages[Len(messages)]

\* this step ran handleSend (Resolve and the other handlers set other outcomes)
HandleSendStep == outcome' \in {"ignored", "rejected", "dispatched"}

\* C1: the log is the two seed turns, one user turn per accepted submit, whose
\* text is the trimmed non-empty input, and one assistant turn per settled
\* round trip, whichever way it settled; so with no request in flight the log
\* has 2 + 2 * accepted turns.
C1_TwoTurnsPerSubmit ==
  /\ Len(messages) = 2 + 2 * accepted - Cardinality(requests)
  /\ Cardinality(TurnsOf("user")) = accepted
  /\ Cardinality(TurnsOf("assistant")) = 1 + accepted - Cardinality(requests)
  /\ \A i \in TurnsOf("user") :
       messages[i].text # "" /\ trim(messages[i].text) = messages[i].text
  /\ (requests = {} => Len(messages) = 2 + 2 * accepted)

\* two submits were accepted and settled, one by the catch block and one not
C1_Witness ==
  /\ requests = {}
  /\ accepted = 2
  /\ Len(messages) = 6
  /\ \E i, j \in TurnsOf("assistant") :
       /\ i > 2 /\ j > 2
       /\ messages[i].text = APOLOGY_REPLY
       /\ messages[j].text # APOLOGY_REPLY

\* C2: a handleSend step taken with an empty trimmed input or without consent
\* leaves the log alone, does not set loading and sends no request.
C2_RejectedSubmitInert ==
  [][ (HandleSendStep /\ (trim(input) = "" \/ ~consentChecked))
        => /\ messages' = messages
           /\ loading' = loading
           /\ fetchCalls' = fetchCalls
           /\ requests' = requests ]_vars

\* a submit was rejected for want of consent while a request was in flight
C2_Witness ==
  /\ outcome = "rejected"
  /\ error = CONSENT_ERROR
  /\ requests # {}
  /\ Len(messages) = 3

\* C3 as stated: after a submit of empty or whitespace-only text with consent
\* granted, error is set, the log is unchanged and no request was sent.
C3_EmptySubmitSetsError ==
  [][ (HandleSendStep /\ trim(input) = "" /\ consentChecked)
        => /\ error' # NULL
           /\ messages' = messages
           /\ fetchCalls' = fetchCalls ]_vars

\* C3 amended: a submit of empty or whitespace-only text is ignored: error is
\* left as it was, the log is unchanged and no request is sent.
C3_EmptySubmitIgnored ==
  [][ (HandleSendStep /\ trim(input) = "")
        => /\ error' = error
           /\ messages' = messages
           /\ fetchCalls' = fetchCalls
           /\ requests' = requests ]_vars

\* a whitespace-only submit was ignored and the error of an earlier failed
\* round trip is still shown
C3_Witness ==
  /\ outcome = "ignored"
  /\ consentChecked
  /\ input # ""
  /\ error = FETCH_ERROR

\* some crisis phrase occurs in the text, letter case aside
CrisisPhraseIn(text) ==
  \E k \in 1..Len(CRISIS_KEYWORDS) :
    LET kw == Chars(CRISIS_KEYWORDS[k])
        cs == Chars(text)
    IN  \E i \in 1..Len(cs) :
          /\ i + Len(kw) - 1 <= Len(cs)
          /\ \A j \in 1..Len(kw) : LowerChar(cs[i + j - 1]) = kw[j]

\* C4: the step that accepts a submit whose trimmed text holds a crisis phrase
\* ends with showCrisisModal true and the request of that submit still in
\* flight.
C4_CrisisFlagAtSubmit ==
  [][ (accepted' = accepted + 1 /\ CrisisPhraseIn(trim(input)))
        => /\ showCrisisModal'
           /\ \E r \in requests' \ requests : r.n = fetchCalls' ]_vars

\* a crisis text was just sent: the modal shows and the request is in flight
C4_Witness ==
  /\ outcome = "dispatched"
  /\ showCrisisModal
  /\ \E r \in requests :
       r.body.messages[Len(r.body.messages)].text = "I want to END my life"

\* a network error, a non-success status or an unparseable body
TransportFailure(resp) ==
  \/ ~resp.fetchOk
  \/ ~resp.ok
  \/ resp.json = "invalid"

\* C5: a round trip that ends in a transport failure appends the assistant
\* turn with the apology text, sets error to the fixed message and clears
\* loading.
C5_FailureHandled ==
  [][ \A r \in requests, resp \in Responses :
        (TransportFailure(resp) /\ Resolve(r, resp))
          => /\ messages' =
                  Append(messages, [id |-> messageId, role |-> "assistant",
                                    text |-> APOLOGY_REPLY, time |-> NOW])
             /\ error' = FETCH_ERROR
             /\ loading' = FALSE
             /\ r \notin requests' ]_vars

\* a round trip has just failed
C5_Witness ==
  /\ outcome = "failed"
  /\ error = FETCH_ERROR
  /\ ~loading
  /\ LastMessage.role = "assistant"
  /\ LastMessage.text = APOLOGY_REPLY

\* C6 as stated: at most one request is in flight.
C6_SingleFlight == Cardinality(requests) <= 1

\* C7 as stated: loading is true exactly while a request is in flight.
C7_PendingIffInFlight == loading <=> (requests # {})

\* C8: the body of every request holds at most WINDOW entries; its last entry
\* is the user turn of that submit, as role and text; every entry before it is
\* a turn of the log, in log order, up to the turn just before that user turn.
C8_PayloadWindow ==
  \A r \in requests :
    LET m == r.body.messages
        pos == r.user + 1
    IN  /\ Len(m) <= WINDOW
        /\ Len(m) >= 1
        /\ m[Len(m)] = [role |-> "user", text |-> messages[pos].text]
        /\ messages[pos].role = "user"
        /\ messages[pos].id = r.user
        /\ \A i \in 1..(Len(m) - 1) : m[i] = messages[pos - (Len(m) - i)]

\* a request is in flight whose body was cut to WINDOW entries
C8_Witness ==
  \E r \in requests :
    /\ Len(r.body.messages) = WINDOW
    /\ r.user + 1 > WINDOW
    /\ r.body.messages[1] # messages[1]

\* the assistant turn of the submit that sent request n is in the log
Answered(n) ==
  \E e \in exchanges :
    /\ e.n = n
    /\ \E i \in TurnsOf("assistant") : messages[i].id = e.assistant

InFlight(n) == \E r \in requests : r.n = n

\* C9: when every fetch settles, each accepted submit leads to a state with
\* loading false and its assistant turn in the log.
C9_EverySubmitAnswered ==
  \A n \in 1..MaxSubmits : (InFlight(n) ~> (~loading /\ Answered(n)))

\* both submits were answered and nothing is loading
C9_Witness ==
  /\ ~loading
  /\ requests = {}
  /\ accepted = MaxSubmits
  /\ \A n \in 1..MaxSubmits : Answered(n)

\* C10: the number of fetch calls is the number of accepted submits, and each
\* is in flight or settled once.
C10_OneRequestPerSubmit ==
  /\ fetchCalls = accepted
  /\ fetchCalls = Cardinality(requests) + Cardinality(exchanges)
  /\ \A n \in 1..fetchCalls : InFlight(n) \/ (\E e \in exchanges : e.n = n)

\* two submits were accepted, one round trip failed and nothing was sent again
C10_Witness ==
  /\ accepted = 2
  /\ fetchCalls = 2
  /\ outcome = "failed"
  /\ requests = {}

\* a 2xx response whose body parses to a value other than null
SuccessResponse(resp) ==
  resp.fetchOk /\ resp.ok /\ resp.json = "object"

\* C11: a round trip that ends in a success response appends one assistant
\* turn whose text is the reply when the reply is there and not empty, and the
\* fallback text otherwise; error is left as it was.
C11_ReplyOrFallback ==
  [][ \A r \in requests, resp \in Responses :
        (SuccessResponse(resp) /\ Resolve(r, resp))
          => /\ Len(messages') = Len(messages) + 1
             /\ messages'[Len(messages')].role = "assistant"
             /\ messages'[Len(messages')].text =
                  IF resp.hasReply /\ resp.reply # "" THEN resp.reply
                  ELSE "Sorry <U+2014> I couldn't generate a response."
             /\ error' = error ]_vars

\* a success response without a usable reply was answered with the fallback
\* text, and no error is shown
C11_Witness ==
  /\ outcome = "replied"
  /\ LastMessage.role = "assistant"
  /\ LastMessage.text = FALLBACK_REPLY
  /\ error = NULL

\* the two characters are the same letter, in whichever case, or the same
\* character
SameLetter(c, d) ==
  \/ c = d
  \/ \E i \in 1..Len(UpperCase) :
       {c, d} = {UpperCase[i], LowerCase[i]}

\* keyword number k occurs in the characters, letter case aside
OccursIn(k, chars) ==
  LET kw == Chars(CRISIS_KEYWORDS[k])
  IN  \E i \in 1..Len(chars) :
        /\ i + Len(kw) - 1 <= Len(chars)
        /\ \A j \in 1..Len(kw) : SameLetter(chars[i + j - 1], kw[j])

\* C12: the classifier answers true exactly for a text that is there and in
\* which some crisis phrase occurs, letter case aside and whatever surrounds
\* it; so it answers false for the empty and for the absent text.
C12_ClassifierExact ==
  probe.verdict # "unset" =>
    ( probe.verdict = "true"
        <=> /\ probe.present
            /\ \E k \in 1..Len(CRISIS_KEYWORDS) : OccursIn(k, probe.chars) )

\* a phrase written with capitals, with text before and after it, was
\* classified as a crisis
C12_Witness ==
  /\ probe.verdict = "true"
  /\ probe.chars # toLowerCase(probe.chars)
  /\ \E k \in 1..Len(CRISIS_KEYWORDS) :
       Len(probe.chars) = Len(Chars(CRISIS_KEYWORDS[k])) + 2 * MaxPad

\* a step of the Clear button
ClearStep == outcome' = "cleared"

\* C13 as stated: Clear replaces the log with its two first entries, puts
\* the next id back to 2 and leaves the settings and the consent alone.
C13_ClearResetsLog ==
  [][ ClearStep =>
        /\ messages' = SeedMessages
        /\ messageId' = 2
        /\ UNCHANGED <<userName, tone, consentChecked>> ]_vars

\* C13: Clear empties the input field and nothing else: the log, the next
\* id, the settings and the consent are what they were.
C13_ClearOnlyInput ==
  [][ ClearStep =>
        /\ input' = ""
        /\ UNCHANGED <<messages, messageId, userName, tone, consentChecked>> ]_vars

\* Clear was pressed with a conversation in the log, and the conversation is
\* still there
C13_Witness ==
  /\ outcome = "cleared"
  /\ input = ""
  /\ Len(messages) > 2
  /\ messageId > 2

\* C14: after a successful response with flagged = true has been handled the
\* crisis modal is showing, whatever happened between the submit and the
\* response, its dismissal included.
C14_FlaggedResponseShowsModal ==
  [][ \A r \in requests, resp \in Responses :
        (SuccessResponse(resp) /\ resp.flagged = "true" /\ Resolve(r, resp))
          => showCrisisModal' ]_vars

\* C15: after the two first entries the log goes user, assistant, user,
\* assistant, ..., and the assistant turn written for a request stands right
\* after the user turn of that request.
C15_CausalOrder ==
  /\ \A i \in 3..Len(messages) :
       messages[i].role = IF i % 2 = 1 THEN "user" ELSE "assistant"
  /\ \A e \in exchanges : e.assistant = e.user + 1

\* C16: the crisis modal, once showing, keeps showing through every submit,
\* response, failure, change of settings or consent and export; the one step
\* that takes it away is the Close button.
C16_StickyFlag ==
  [][ (showCrisisModal /\ ~showCrisisModal') => CloseCrisisModal ]_vars

\* the modal is showing after a reply to a request that was submitted with
\* the modal showing and under a changed tone
C16_Witness ==
  /\ showCrisisModal
  /\ outcome = "replied"
  /\ tone # "compassionate"
  /\ \A i \in 1..Len(messages) :
       messages[i].role = "user" => ~CrisisPhraseIn(messages[i].text)

\* C17: the ids in the log grow strictly from entry to entry (so no two are
\* equal); the two first entries have ids 0 and 1 and the first appended
\* entry has id 2, also when requests overlap.
C17_IdsIncrease ==
  /\ \A i, j \in 1..Len(messages) : i < j => messages[i].id < messages[j].id
  /\ messages[1].id = 0
  /\ messages[2].id = 1
  /\ Len(messages) > 2 => messages[3].id = 2

\* two requests overlapped: two user turns stand side by side and both
\* answers were appended after them
C17_Witness ==
  /\ Len(messages) = 6
  /\ messages[3].role = "user"
  /\ messages[4].role = "user"
  /\ messages[5].role = "assistant"
  /\ messages[6].role = "assistant"
  /\ messages[6].id = 5

\* the log before the step is the beginning of the log after it
LogExtended ==
  /\ Len(messages') >= Len(messages)
  /\ SubSeq(messages', 1, Len(messages)) = messages

\* C18: no step edits, reorders or removes an entry of the log: the old log
\* is the beginning of the new one; the log is never empty and begins with
\* the system entry and the greeting.
C18_AppendOnly ==
  /\ [](Len(messages) >= 2 /\ SubSeq(messages, 1, 2) = SeedMessages)
  /\ [][LogExtended]_vars

\* a user turn and the apology of a failed round trip were appended behind
\* the two first entries
C18_Witness ==
  /\ Len(messages) >= 4
  /\ SubSeq(messages, 1, 2) = SeedMessages
  /\ outcome = "failed"
  /\ LastMessage.text = APOLOGY_REPLY

\* C19: every entry of the messages list of a request body has the fields
\* role and text and no other, and the body carries the tone and the user
\* name as they are when the submit happens.
C19_PayloadShape ==
  [][ outcome' = "dispatched" =>
        \A r \in requests' \ requests :
          /\ \A i \in 1..Len(r.body.messages) :
               DOMAIN r.body.messages[i] = {"role", "text"}
          /\ r.body.settings.tone = tone
          /\ r.body.metadata.userName = userName ]_vars

\* C20 as stated: after any call of handleSend the error of an earlier
\* attempt is gone (the error is null unless this call was rejected and set
\* the consent error), and while one accepted request alone is in flight
\* the error is null.
C20_ErrorClearedByEverySubmit ==
  /\ [][ HandleSendStep =>
           \/ error' = NULL
           \/ outcome' = "rejected" /\ error' = CONSENT_ERROR ]_vars
  /\ [](Cardinality(requests) = 1 => error = NULL)

\* C20: a call of handleSend with text that is not empty after trimming
\* clears the error of an earlier attempt: right after it the error is null
\* if the submit was accepted and the consent error if it was rejected.  A
\* call with empty text leaves the error as it was.
C20_ErrorClearedByNonEmptySubmit ==
  [][ HandleSendStep =>
        /\ outcome' = "dispatched" => error' = NULL
        /\ outcome' = "rejected" => error' = CONSENT_ERROR
        /\ outcome' = "ignored" => error' = error ]_vars

\* a round trip failed and left its error and its apology; the next submit
\* was accepted and the error is gone
C20_Witness ==
  /\ outcome = "dispatched"
  /\ error = NULL
  /\ Len(messages) >= 5
  /\ messages[Len(messages) - 1].text = APOLOGY_REPLY
  /\ Cardinality(requests) = 1

====
